---- MODULE Spec2Model ----
(***************************************************************************)
(* ts-compiler-bin: the compile pipeline of src/index.ts (argument         *)
(* resolver, bundler invoker, asset stager, packager invoker, cleanup) and *)
(* the CLI entry of bin/cli.ts, over an explicit model of the disk.        *)
(* Spec is one process making one compile call (CLI or programmatic),      *)
(* SpecArgs the argument resolver alone, SpecTwo a program with two        *)
(* compile calls in flight, SpecHelper the injected asset helper in a      *)
(* process of the packaged program.                                        *)
(*                                                                         *)
(* Paths, file contents, command-line tokens and target identifiers are    *)
(* strings; a directory is a path mapped to DIR.                           *)
(***************************************************************************)
EXTENDS Integers, Sequences, FiniteSets, TLC

\* ------------------------------------------------------------------------
\* Bounds
\* ------------------------------------------------------------------------
\* the longest argument list the parser is checked on
MaxArgs == 3
\* the longest argument list of a CLI run of the pipeline
MaxCliArgs == 4
\* the longest asset list of a programmatic call
MaxAssets == 2
\* the most bundles one process of the packaged program evaluates
MaxLoads == 2

\* ------------------------------------------------------------------------
\* JavaScript values
\* ------------------------------------------------------------------------
\* the value of a missing property, of args[i] past the end of the list
Undefined == "<undefined>"

\* `${x}`
Str(x) == IF x = Undefined THEN "undefined" ELSE x

\* s.startsWith(p)
StartsWith(s, p) == Len(s) >= Len(p) /\ SubSeq(s, 1, Len(p)) = p

\* args.includes(x)
Includes(s, x) == \E i \in 1..Len(s) : s[i] = x

\* ------------------------------------------------------------------------
\* path
\* ------------------------------------------------------------------------
Cwd == "/w"

\* index of the last "/" of p, 0 when there is none
RECURSIVE LastSlash(_, _)
LastSlash(p, i) ==
  IF i = 0 THEN 0
  ELSE IF SubSeq(p, i, i) = "/" THEN i
  ELSE LastSlash(p, i - 1)

\* path.basename
Basename(p) == SubSeq(p, LastSlash(p, Len(p)) + 1, Len(p))

\* path.dirname
Dirname(p) ==
  LET k == LastSlash(p, Len(p))
  IN  IF k = 0 THEN "."
      ELSE IF k = 1 THEN "/"
      ELSE SubSeq(p, 1, k - 1)

\* a leading "./" is dropped by path normalisation
StripDot(p) == IF StartsWith(p, "./") THEN SubSeq(p, 3, Len(p)) ELSE p

\* path.join(a, b)
Join(a, b) ==
  IF a = "." THEN StripDot(b)
  ELSE IF a = "/" THEN "/" \o StripDot(b)
  ELSE a \o "/" \o StripDot(b)

\* path.resolve(p), and the path a relative name denotes in an fs call
Resolve(p) == IF StartsWith(p, "/") THEN p ELSE Join(Cwd, p)

tempDir == Join(Cwd, ".ts-compiler-bin-temp")
bundleFile == Join(tempDir, "bundle.js")
tempAssetsDir == Join(tempDir, "assets")
readmePath == Join(Join(tempDir, "assets"), "README.md")

\* ------------------------------------------------------------------------
\* fs: the disk is a function from absolute paths to file contents, a
\* directory being a path mapped to DIR
\* ------------------------------------------------------------------------
DIR == "<DIR>"

\* files the process may not read (copying one fails with EACCES)
Unreadable == {"/w/secret.key"}

\* the order in which a directory listing returns names
NameOrder ==
  << "README.md", "a.png", "a.ts", "app", "assets", "b.png", "bundle.js",
     "conf", "config.json", "dist", "empty", "images", "out", "secret.key",
     "stale.txt", "sub" >>

\* the outcome of a call that may throw
Ok(f) == [fs |-> f, ok |-> TRUE, err |-> ""]
Throw(f, e) == [fs |-> f, ok |-> FALSE, err |-> e]

Put(f, p, v) == [q \in DOMAIN f \cup {p} |-> IF q = p THEN v ELSE f[q]]

\* fs.existsSync
existsSync(f, p) == Resolve(p) \in DOMAIN f

IsDirectory(f, p) == Resolve(p) \in DOMAIN f /\ f[Resolve(p)] = DIR

\* fs.mkdirSync(p, { recursive: true })
RECURSIVE MkdirP(_, _)
MkdirP(f, p) ==
  IF p \in DOMAIN f \/ p = "/" THEN f
  ELSE Put(MkdirP(f, Dirname(p)), p, DIR)

mkdirSync(f, p) == MkdirP(f, Resolve(p))

\* fs.readdirSync(p): the names directly under p
readdirSync(f, p) ==
  SelectSeq(NameOrder, LAMBDA n : Join(Resolve(p), n) \in DOMAIN f)

\* fs.copyFileSync(src, dst)
copyFileSync(f, src, dst) ==
  LET s == Resolve(src)
      d == Resolve(dst)
  IN  IF s \notin DOMAIN f THEN Throw(f, "ENOENT: " \o s)
      ELSE IF f[s] = DIR THEN Throw(f, "EISDIR: " \o s)
      ELSE IF s \in Unreadable THEN Throw(f, "EACCES: " \o s)
      ELSE IF ~existsSync(f, Dirname(d)) THEN Throw(f, "ENOENT: " \o d)
      ELSE IF ~IsDirectory(f, Dirname(d)) THEN Throw(f, "ENOTDIR: " \o d)
      ELSE IF IsDirectory(f, d) THEN Throw(f, "EISDIR: " \o d)
      ELSE Ok(Put(f, d, f[s]))

\* fs.writeFileSync(p, data)
writeFileSync(f, p, data) ==
  LET d == Resolve(p)
  IN  IF ~existsSync(f, Dirname(d)) THEN Throw(f, "ENOENT: " \o d)
      ELSE IF ~IsDirectory(f, Dirname(d)) THEN Throw(f, "ENOTDIR: " \o d)
      ELSE IF IsDirectory(f, d) THEN Throw(f, "EISDIR: " \o d)
      ELSE Ok(Put(f, d, data))

\* fs.rmSync(p, { recursive: true, force: true })
rmSync(f, p) ==
  LET d == Resolve(p)
  IN  [q \in {x \in DOMAIN f : x # d /\ ~StartsWith(x, d \o "/")} |-> f[q]]

\* the paths of f at or below p
Under(f, p) == {x \in DOMAIN f : x = p \/ StartsWith(x, p \o "/")}

\* copyDirectoryRecursive(source, target); CopyEntries is its for loop
RECURSIVE copyDirectoryRecursive(_, _, _)
RECURSIVE CopyEntries(_, _, _, _, _)
CopyEntries(r, source, target, names, k) ==
  IF ~r.ok \/ k > Len(names) THEN r
  ELSE LET sourcePath == Join(source, names[k])
           targetPath == Join(target, names[k])
       IN  CopyEntries(IF IsDirectory(r.fs, sourcePath)
                         THEN copyDirectoryRecursive(r.fs, sourcePath, targetPath)
                         ELSE copyFileSync(r.fs, sourcePath, targetPath),
                       source, target, names, k + 1)

copyDirectoryRecursive(f, source, target) ==
  LET f1 == IF ~existsSync(f, target) THEN mkdirSync(f, target) ELSE f
  IN  IF ~IsDirectory(f1, source) THEN Throw(f1, "ENOENT: " \o Resolve(source))
      ELSE CopyEntries(Ok(f1), source, target, readdirSync(f1, source), 1)

\* variant: the directory is copied as a folder of its own name
copyDirectoryNested(f, source, target) ==
  copyDirectoryRecursive(f, source, Join(target, Basename(Resolve(source))))

\* copyDirectoryContents(source, target)
copyDirectoryContents(f, source, target) ==
  LET f1 == IF ~existsSync(f, target) THEN mkdirSync(f, target) ELSE f
  IN  IF ~IsDirectory(f1, source) THEN Throw(f1, "ENOENT: " \o Resolve(source))
      ELSE CopyEntries(Ok(f1), source, target, readdirSync(f1, source), 1)

\* ------------------------------------------------------------------------
\* The world: the disk before the run, the operating system, the inputs
\* ------------------------------------------------------------------------
\* the working directory of the examples: an entry file, a file asset, a
\* directory asset with a nested directory, an unreadable file, a README.md,
\* a second config.json in another directory and an empty directory
BaseDisk ==
  [p \in { "/w", "/w/a.ts", "/w/config.json", "/w/images", "/w/images/a.png",
           "/w/images/sub", "/w/images/sub/b.png", "/w/secret.key",
           "/w/README.md", "/w/conf", "/w/conf/config.json", "/w/empty" } |->
     CASE p = "/w/a.ts" -> "src:a"
       [] p = "/w/config.json" -> "cfg"
       [] p = "/w/images/a.png" -> "png-a"
       [] p = "/w/images/sub/b.png" -> "png-b"
       [] p = "/w/secret.key" -> "key"
       [] p = "/w/README.md" -> "user readme"
       [] p = "/w/conf/config.json" -> "cfg-conf"
       [] OTHER -> DIR]

\* what an earlier run that stopped after staging leaves behind
StaleTemp ==
  [p \in { "/w/.ts-compiler-bin-temp", "/w/.ts-compiler-bin-temp/bundle.js",
           "/w/.ts-compiler-bin-temp/assets",
           "/w/.ts-compiler-bin-temp/assets/stale.txt" } |->
     CASE p = "/w/.ts-compiler-bin-temp/bundle.js" -> "bundle:old"
       [] p = "/w/.ts-compiler-bin-temp/assets/stale.txt" -> "stale"
       [] OTHER -> DIR]

\* a working directory whose dist/ holds a regular file named assets
DistAssetsFile ==
  Put(Put(BaseDisk, "/w/dist", DIR), "/w/dist/assets", "not a directory")

Disks ==
  { BaseDisk,
    Put(BaseDisk, "/w/.ts-compiler-bin-temp", DIR),
    [p \in DOMAIN BaseDisk \cup DOMAIN StaleTemp |->
       IF p \in DOMAIN StaleTemp THEN StaleTemp[p] ELSE BaseDisk[p]],
    DistAssetsFile }

\* process.platform
OsPlatforms == {"win32", "darwin", "linux"}

\* the tokens the parser is checked on: every flag in both spellings, an
\* unknown flag, and bare tokens
ArgTokens ==
  { "--out", "-o", "--target", "-t", "--platform", "-p", "--assets", "-a",
    "--help", "-h", "-x", "a.ts", "nope.ts", "all", "config.json" }

\* the tokens of a CLI run of the pipeline
CliTokens ==
  { "-o", "-a", "-p", "-h", "a.ts", "nope.ts", "config.json" }

RECURSIVE SeqsUpTo(_, _)
SeqsUpTo(S, n) ==
  IF n = 0 THEN {<< >>}
  ELSE LET shorter == SeqsUpTo(S, n - 1)
       IN  shorter \cup {Append(q, x) : q \in {t \in shorter : Len(t) = n - 1}, x \in S}

ArgLists == SeqsUpTo(ArgTokens, MaxArgs)

CliArgLists == SeqsUpTo(CliTokens, MaxCliArgs)

\* the asset paths of a programmatic call
AssetTokens ==
  { "config.json", "images", "./missing-dir", "secret.key", "README.md",
    "empty" }

\* CompileOptions.assets: absent, one string, or an array of strings
NoAssets == [t |-> "undefined", s |-> "", a |-> << >>]
AssetString(x) == [t |-> "string", s |-> x, a |-> << >>]
AssetArray(q) == [t |-> "array", s |-> "", a |-> q]

AssetOptions ==
  {NoAssets} \cup {AssetString(x) : x \in {"config.json", "./missing-dir"}}
    \cup {AssetArray(q) : q \in SeqsUpTo(AssetTokens, MaxAssets)}

\* the options records of a programmatic call
ApiOptions ==
  [ entryPoint : {"a.ts", "nope.ts"},
    outFile : {Undefined, "out", "dist/app"},
    target : {Undefined},
    platform : {Undefined, "all", "linux", "solaris"},
    nodeVersion : {Undefined, "18"},
    assets : AssetOptions ]

\* the options records of a program that has two compile calls in flight
TwoRunOptions ==
  [ entryPoint : {"a.ts"},
    outFile : {"out", "dist/app"},
    target : {Undefined},
    platform : {Undefined},
    nodeVersion : {Undefined},
    assets : {NoAssets, AssetArray(<< "config.json" >>), AssetArray(<< "images" >>)} ]

\* ------------------------------------------------------------------------
\* main: the argument resolver
\* ------------------------------------------------------------------------
\* args[i], 1-based; undefined past the end
At(args, i) == IF i <= Len(args) THEN args[i] ELSE Undefined

\* the platform the current OS maps to
DefaultPlatform(os) ==
  IF os = "win32" THEN "win" ELSE IF os = "darwin" THEN "macos" ELSE "linux"

\* the variables of main before its parse loop
ParseStart(os) ==
  [ entryPoint |-> "", outFile |-> "output", target |-> "16",
    platform |-> DefaultPlatform(os), assets |-> << >> ]

\* the parse loop of main, from position i on
RECURSIVE ParseLoop(_, _, _)
ParseLoop(args, i, st) ==
  IF i > Len(args) THEN st
  ELSE LET arg == args[i]
       IN  IF arg = "--out" \/ arg = "-o"
             THEN ParseLoop(args, i + 2, [st EXCEPT !.outFile = At(args, i + 1)])
           ELSE IF arg = "--target" \/ arg = "-t"
             THEN ParseLoop(args, i + 2, [st EXCEPT !.target = At(args, i + 1)])
           ELSE IF arg = "--platform" \/ arg = "-p"
             THEN ParseLoop(args, i + 2, [st EXCEPT !.platform = At(args, i + 1)])
           ELSE IF arg = "--assets" \/ arg = "-a"
             THEN ParseLoop(args, i + 2,
                            [st EXCEPT !.assets = Append(@, At(args, i + 1))])
           ELSE IF ~StartsWith(arg, "-")
             THEN ParseLoop(args, i + 1, [st EXCEPT !.entryPoint = arg])
           ELSE ParseLoop(args, i + 1, st)

ParseArgs(args, os) == ParseLoop(args, 1, ParseStart(os))

\* args.length === 0 || args.includes('--help') || args.includes('-h')
WantsHelp(args) == Len(args) = 0 \/ Includes(args, "--help") \/ Includes(args, "-h")

\* the options record main passes to compile
MainOptions(pa) ==
  [ entryPoint |-> Resolve(pa.entryPoint),
    outFile |-> pa.outFile,
    target |-> "node" \o Str(pa.target),
    platform |-> pa.platform,
    nodeVersion |-> pa.target,
    assets |-> AssetArray(pa.assets) ]

\* ------------------------------------------------------------------------
\* compile: the pure parts
\* ------------------------------------------------------------------------
WithDefault(v, d) == IF v = Undefined THEN d ELSE v

\* variant: compile's platform default ignores the operating system
CompilePlatformDefaultLinux(os) == "linux"

\* the default of the platform option of compile
CompilePlatformDefault(os) ==
  IF os = "win32" THEN "win" ELSE IF os = "darwin" THEN "macos" ELSE "linux"

\* the destructuring of the options, with the assets normalised to a list
Destructure(o, os) ==
  [ entryPoint |-> o.entryPoint,
    outFile |-> o.outFile,
    platform |-> WithDefault(o.platform, CompilePlatformDefault(os)),
    nodeVersion |-> WithDefault(o.nodeVersion, "16"),
    assetsArray |-> IF o.assets.t = "undefined" THEN << >>
                    ELSE IF o.assets.t = "string" THEN << o.assets.s >>
                    ELSE o.assets.a ]

\* the arguments of esbuild.build
BuildArgs(c) ==
  [ entryPoints |-> << Resolve(c.entryPoint) >>,
    target |-> << "node" \o Str(c.nodeVersion) >>,
    outfile |-> bundleFile ]

\* what the bundler writes for an entry file
BundlerOutput(f, entryPointPath) == "bundle:" \o f[entryPointPath]

\* the text prepended to the bundle
assetHelperCode == "<asset helper>"

ReadmeText == "This directory contains assets for the application."

\* ------------------------------------------------------------------------
\* assetHelperCode at run time: what the prepended text does in the process
\* that evaluates the bundle
\* ------------------------------------------------------------------------
\* path.dirname(process.execPath), process.cwd() and __dirname of that process
ExecDir == "/opt/app"
RunCwd == "/home/u"
BundleDir == "/src"

\* the outcome of a read
Read(data) == [ok |-> TRUE, err |-> "", data |-> data]
ReadThrow(e) == [ok |-> FALSE, err |-> e, data |-> ""]

\* fs.readFileSync(p, 'utf-8')
readFileSync(f, p) ==
  IF ~existsSync(f, p) THEN ReadThrow("ENOENT: " \o p)
  ELSE IF IsDirectory(f, p) THEN ReadThrow("EISDIR: " \o p)
  ELSE Read(f[p])

\* variant: the helper is installed on every evaluation
HelperPrologueUnguarded(g) ==
  [g EXCEPT !.initialized = TRUE, !.installs = @ + 1]

\* if (!global.__assetAccessInitialized) { ... global.__readAsset = ... }
HelperPrologue(g) ==
  IF ~g.initialized
    THEN [g EXCEPT !.initialized = TRUE, !.installs = @ + 1]
    ELSE g

\* variant: the working directory is tried before the executable's directory
readAssetCwdFirst(f, pkg, filename) ==
  LET pkgPath == Join(Join(ExecDir, "assets"), filename)
      pkgPath2 == Join(Join(RunCwd, "assets"), filename)
      snapshotPath == Join("/snapshot/assets", filename)
      devPath == Join(Join(BundleDir, "assets"), filename)
  IN  IF existsSync(f, pkgPath2) THEN readFileSync(f, pkgPath2)
      ELSE IF existsSync(f, pkgPath) THEN readFileSync(f, pkgPath)
      ELSE IF pkg /\ existsSync(f, snapshotPath) THEN readFileSync(f, snapshotPath)
      ELSE IF existsSync(f, devPath) THEN readFileSync(f, devPath)
      ELSE ReadThrow("Asset file not found: " \o filename)

\* global.__readAsset(filename); pkg is whether process.pkg is set
readAsset(f, pkg, filename) ==
  LET pkgPath == Join(Join(ExecDir, "assets"), filename)
      pkgPath2 == Join(Join(RunCwd, "assets"), filename)
      snapshotPath == Join("/snapshot/assets", filename)
      devPath == Join(Join(BundleDir, "assets"), filename)
  IN  IF existsSync(f, pkgPath) THEN readFileSync(f, pkgPath)
      ELSE IF existsSync(f, pkgPath2) THEN readFileSync(f, pkgPath2)
      ELSE IF pkg /\ existsSync(f, snapshotPath) THEN readFileSync(f, snapshotPath)
      ELSE IF existsSync(f, devPath) THEN readFileSync(f, devPath)
      ELSE ReadThrow("Asset file not found: " \o filename)

\* the places a copy of config.json may be in when the program runs
AssetPlaces ==
  { "/opt/app/assets/config.json", "/home/u/assets/config.json",
    "/snapshot/assets/config.json", "/src/assets/config.json" }

\* the disk with copies at the places S, each copy naming its place
RunDisk(S) == [p \in S |-> "cfg@" \o p]

RunDisks == {RunDisk(S) : S \in SUBSET AssetPlaces}

\* the names the program asks for
LookupNames == {"config.json", "logo.png"}

\* the scripts a process evaluates: a bundle with the helper, one without
Bundles == {assetHelperCode \o "bundle:src:a", "bundle:src:a"}

\* variant: the existence check of the asset is missing
StageOneUnchecked(st, asset) ==
  IF asset = Undefined
    THEN [st EXCEPT !.ok = FALSE, !.err = "TypeError: path must be a string"]
  ELSE
    LET assetPath == Resolve(asset)
        r == IF IsDirectory(st.fs, assetPath)
               THEN copyDirectoryContents(st.fs, assetPath, tempAssetsDir)
               ELSE copyFileSync(st.fs, assetPath,
                                 Join(tempAssetsDir, Basename(assetPath)))
    IN  [ fs |-> r.fs, ok |-> r.ok, err |-> r.err,
          hasAssets |-> st.hasAssets \/ r.ok,
          warnings |-> st.warnings ]

\* one iteration of the asset loop on st = [fs, ok, err, hasAssets, warnings]
StageOne(st, asset) ==
  IF asset = Undefined
    THEN [st EXCEPT !.ok = FALSE, !.err = "TypeError: path must be a string"]
  ELSE
    LET assetPath == Resolve(asset)
    IN  IF ~existsSync(st.fs, assetPath)
          THEN [st EXCEPT !.warnings = Append(@, "Warning: Asset not found: " \o assetPath)]
        ELSE
          LET r == IF IsDirectory(st.fs, assetPath)
                     THEN copyDirectoryContents(st.fs, assetPath, tempAssetsDir)
                     ELSE copyFileSync(st.fs, assetPath,
                                       Join(tempAssetsDir, Basename(assetPath)))
          IN  [ fs |-> r.fs, ok |-> r.ok, err |-> r.err,
                hasAssets |-> st.hasAssets \/ r.ok,
                warnings |-> st.warnings ]

\* the asset loop from position k on; a throw ends it
RECURSIVE StageLoop(_, _, _)
StageLoop(st, assetsArray, k) ==
  IF ~st.ok \/ k > Len(assetsArray) THEN st
  ELSE StageLoop(StageOne(st, assetsArray[k]), assetsArray, k + 1)

\* variant: the helper is prepended whether or not an asset was copied
InjectHelperAlways(st) ==
  IF ~st.ok THEN st
  ELSE LET w == writeFileSync(st.fs, bundleFile, assetHelperCode \o st.fs[bundleFile])
       IN  [st EXCEPT !.fs = w.fs, !.ok = w.ok, !.err = w.err]

\* the helper is prepended to the bundle when an asset was copied
InjectHelper(st) ==
  IF ~st.ok \/ ~st.hasAssets THEN st
  ELSE IF ~existsSync(st.fs, bundleFile) \/ IsDirectory(st.fs, bundleFile)
    THEN [st EXCEPT !.ok = FALSE, !.err = "ENOENT: " \o bundleFile]
  ELSE LET bundleContent == st.fs[bundleFile]
           w == writeFileSync(st.fs, bundleFile, assetHelperCode \o bundleContent)
       IN  [st EXCEPT !.fs = w.fs, !.ok = w.ok, !.err = w.err]

\* step 2 of compile: copy the assets, then add the helper
StageAssets(f, assetsArray) ==
  LET st0 == [fs |-> f, ok |-> TRUE, err |-> "", hasAssets |-> FALSE, warnings |-> << >>]
  IN  IF Len(assetsArray) > 0
        THEN InjectHelper(
               StageLoop([st0 EXCEPT !.fs = IF ~existsSync(f, tempAssetsDir)
                                               THEN mkdirSync(f, tempAssetsDir)
                                               ELSE f],
                         assetsArray, 1))
        ELSE st0

\* variant: "all" is not expanded
pkgTargetsVerbatim(platform, nodeVersion) ==
  << "node" \o Str(nodeVersion) \o "-" \o Str(platform) \o "-x64" >>

\* variant: the architecture suffix is left off a single target
pkgTargetsNoArch(platform, nodeVersion) ==
  IF platform = "all"
    THEN << "node" \o Str(nodeVersion) \o "-win-x64",
            "node" \o Str(nodeVersion) \o "-macos-x64",
            "node" \o Str(nodeVersion) \o "-linux-x64" >>
    ELSE << "node" \o Str(nodeVersion) \o "-" \o Str(platform) >>

\* the target identifiers handed to the packager
pkgTargets(platform, nodeVersion) ==
  IF platform = "all"
    THEN << "node" \o Str(nodeVersion) \o "-win-x64",
            "node" \o Str(nodeVersion) \o "-macos-x64",
            "node" \o Str(nodeVersion) \o "-linux-x64" >>
    ELSE << "node" \o Str(nodeVersion) \o "-" \o Str(platform) \o "-x64" >>

\* pkgTargets.join(',')
RECURSIVE JoinComma(_)
JoinComma(q) ==
  IF Len(q) = 0 THEN ""
  ELSE IF Len(q) = 1 THEN q[1]
  ELSE q[1] \o "," \o JoinComma(Tail(q))

pkgAssetsOption(hasAssets) ==
  IF hasAssets THEN "--assets \"" \o tempDir \o "/assets/**/*\"" ELSE ""

pkgCommand(c, hasAssets) ==
  "npx pkg " \o bundleFile \o " --targets "
    \o JoinComma(pkgTargets(c.platform, c.nodeVersion)) \o " "
    \o pkgAssetsOption(hasAssets) \o " --output " \o Str(c.outFile)

\* variant: no README.md is written
WriteReadmeSkipped(st) == st

\* the README.md written into the staged assets before packaging
WriteReadme(st) ==
  IF ~st.ok \/ ~st.hasAssets THEN st
  ELSE LET w == writeFileSync(st.fs, readmePath, ReadmeText)
       IN  [st EXCEPT !.fs = w.fs, !.ok = w.ok, !.err = w.err]

\* variant: a throw while staging is followed by the cleanup
AfterBundleCleaned(f, c) ==
  LET st == WriteReadme(StageAssets(f, c.assetsArray))
  IN  IF st.ok THEN st ELSE [st EXCEPT !.fs = rmSync(@, tempDir)]

\* compile from the bundler's completion to the packager's invocation
AfterBundle(f, c) == WriteReadme(StageAssets(f, c.assetsArray))

\* the invocation of the packager: its command line and what it is handed
PkgCall(st, c, r) ==
  [ run |-> r,
    command |-> pkgCommand(c, st.hasAssets),
    targets |-> pkgTargets(c.platform, c.nodeVersion),
    assetsOption |-> pkgAssetsOption(st.hasAssets),
    output |-> Str(c.outFile),
    bundle |-> st.fs[bundleFile],
    assets |-> [p \in Under(st.fs, tempAssetsDir) |-> st.fs[p]] ]

\* the platforms the packager knows
PkgPlatforms == {"win", "macos", "linux", "alpine"}

\* the files the packager writes: one per target, decorated when several
pkgOutputs(c) ==
  IF c.platform = "all"
    THEN << Str(c.outFile) \o "-win.exe", Str(c.outFile) \o "-macos",
            Str(c.outFile) \o "-linux" >>
  ELSE IF c.platform = "win" THEN << Str(c.outFile) \o ".exe" >>
  ELSE << Str(c.outFile) >>

RECURSIVE WriteBinaries(_, _, _)
WriteBinaries(f, outs, data) ==
  IF Len(outs) = 0 THEN f
  ELSE WriteBinaries(Put(MkdirP(f, Dirname(Resolve(Head(outs)))),
                         Resolve(Head(outs)), data),
                     Tail(outs), data)

\* what the packager leaves on disk when it succeeds
PackagerWrites(f, c) == WriteBinaries(f, pkgOutputs(c), "bin:" \o f[bundleFile])

\* the assets/ directory beside the output
exeAssetsDir(c) == Join(Dirname(c.outFile), "assets")

\* the copy of the staged assets beside the executable, after the packager
CopyBesideExe(f, c, hasAssets) ==
  IF ~hasAssets THEN Ok(f)
  ELSE IF c.outFile = Undefined THEN Throw(f, "TypeError: path must be a string")
  ELSE copyDirectoryContents(
         IF ~existsSync(f, exeAssetsDir(c)) THEN mkdirSync(f, exeAssetsDir(c)) ELSE f,
         tempAssetsDir, exeAssetsDir(c))

\* variant: the cleanup is missing
CleanupSkipped(f) == f

\* the finally block of compile
Cleanup(f) == rmSync(f, tempDir)

\* ------------------------------------------------------------------------
\* State
\* ------------------------------------------------------------------------
RunIds == {1, 2}

NoExit == -1

NoLookup == [name |-> "", ok |-> TRUE, err |-> "", data |-> ""]

\* the running program before it has evaluated a bundle
RuntimeIdle ==
  [ pkg |-> FALSE, initialized |-> FALSE, installs |-> 0, helperRuns |-> 0,
    loads |-> 0, lookup |-> NoLookup ]

NotParsed ==
  [ entryPoint |-> Undefined, outFile |-> Undefined, target |-> Undefined,
    platform |-> Undefined, assets |-> << >> ]

NoOptions ==
  [ entryPoint |-> Undefined, outFile |-> Undefined, target |-> Undefined,
    platform |-> Undefined, nodeVersion |-> Undefined, assets |-> NoAssets ]

VARIABLES
  fs,            \* the disk
  disk0,         \* the disk before the run
  osPlatform,    \* process.platform
  mode,          \* "cli": started by bin/cli.ts; "api": compile called by a program
  live,          \* the compile calls this process makes
  args,          \* process.argv.slice(2)
  parsed,        \* the variables of main after its parse loop, as it logs them
  usageShown,    \* main printed the usage text
  exitCode,      \* the exit code of the process, NoExit while it runs
  pc,            \* per compile call: idle, bundling, packaging, resolved, rejected
  options,       \* per compile call: the options it was given
  hasAssets,     \* per compile call: its local hasAssets
  err,           \* per compile call: the error it rejected with
  failedAt,      \* per compile call: the stage that threw
  bundlerCalls,  \* the invocations of esbuild.build, in order
  pkgCalls,      \* the invocations of the packager, in order
  warnings,      \* console.warn output, in order
  runtime        \* the process of the packaged program: process.pkg, the
                 \* helper's flag, how often it was evaluated and installed,
                 \* and the last lookup

vars ==
  << fs, disk0, osPlatform, mode, live, args, parsed, usageShown, exitCode, pc,
     options, hasAssets, err, failedAt, bundlerCalls, pkgCalls, warnings,
     runtime >>

\* the configuration a started compile call works with
cfg(r) == Destructure(options[r], osPlatform)

InitCommon ==
  /\ osPlatform \in OsPlatforms
  /\ parsed = NotParsed
  /\ usageShown = FALSE
  /\ exitCode = NoExit
  /\ pc = [r \in RunIds |-> "idle"]
  /\ options = [r \in RunIds |-> NoOptions]
  /\ hasAssets = [r \in RunIds |-> FALSE]
  /\ err = [r \in RunIds |-> ""]
  /\ failedAt = [r \in RunIds |-> "none"]
  /\ bundlerCalls = << >>
  /\ pkgCalls = << >>
  /\ warnings = << >>

\* one process: either the CLI on some argument list, or a program that
\* calls compile once
Init ==
  /\ \/ mode = "api" /\ args = << >> /\ disk0 \in Disks
     \/ mode = "cli" /\ args \in CliArgLists /\ disk0 = BaseDisk
  /\ fs = disk0
  /\ live = {1}
  /\ runtime = RuntimeIdle
  /\ InitCommon

\* the CLI on the argument lists the parser is checked on
InitArgs ==
  /\ mode = "cli"
  /\ args \in ArgLists
  /\ disk0 = BaseDisk
  /\ fs = disk0
  /\ live = {1}
  /\ runtime = RuntimeIdle
  /\ InitCommon

\* ------------------------------------------------------------------------
\* Actions
\* ------------------------------------------------------------------------
\* variant: main swallows the rejection of compile
MainAwaitCompileSwallowed(outcome) ==
  exitCode' = IF mode = "cli" THEN 0 ELSE exitCode

\* the await of compile in main: exit 1 on rejection, return (exit 0) otherwise
MainAwaitCompile(outcome) ==
  exitCode' = IF mode = "cli"
                THEN (IF outcome = "rejected" THEN 1 ELSE 0)
                ELSE exitCode

\* compile call r settles
Settle(r, outcome, e, where) ==
  /\ pc' = [pc EXCEPT ![r] = outcome]
  /\ err' = [err EXCEPT ![r] = e]
  /\ failedAt' = [failedAt EXCEPT ![r] = where]
  /\ MainAwaitCompile(outcome)

\* variant: the existence check of the entry file is missing
EntryExistsUnchecked(f, entryPointPath) == TRUE

\* fs.existsSync(entryPointPath) in compile
EntryExists(f, entryPointPath) == existsSync(f, entryPointPath)

\* compile, from its call to the await of the bundler
CompileEnter(r, o) ==
  LET c == Destructure(o, osPlatform)
      entryPointPath == Resolve(c.entryPoint)
  IN  /\ pc[r] = "idle"
      /\ options' = [options EXCEPT ![r] = o]
      /\ IF ~EntryExists(fs, entryPointPath)
           THEN /\ Settle(r, "rejected", "File not found: " \o entryPointPath,
                          "resolution")
                /\ UNCHANGED << fs, bundlerCalls >>
           ELSE /\ fs' = IF ~existsSync(fs, tempDir) THEN mkdirSync(fs, tempDir) ELSE fs
                /\ bundlerCalls' = Append(bundlerCalls, BuildArgs(c))
                /\ pc' = [pc EXCEPT ![r] = "bundling"]
                /\ UNCHANGED << err, failedAt, exitCode >>
      /\ UNCHANGED << runtime, disk0, osPlatform, mode, live, args, hasAssets, pkgCalls,
                      warnings >>

\* main of the CLI: help, parse, usage error, or the call of compile
Main ==
  /\ mode = "cli"
  /\ exitCode = NoExit
  /\ pc[1] = "idle"
  /\ IF WantsHelp(args)
       THEN /\ usageShown' = TRUE
            /\ exitCode' = 0
            /\ UNCHANGED << runtime, fs, disk0, osPlatform, mode, live, args, parsed, pc,
                            options, hasAssets, err, failedAt, bundlerCalls,
                            pkgCalls, warnings >>
       ELSE LET pa == ParseArgs(args, osPlatform)
            IN  /\ parsed' = pa
                /\ UNCHANGED usageShown
                /\ IF pa.entryPoint = ""
                     THEN /\ exitCode' = 1
                          /\ UNCHANGED << runtime, fs, disk0, osPlatform, mode, live, args,
                                          pc, options, hasAssets, err, failedAt,
                                          bundlerCalls, pkgCalls, warnings >>
                     ELSE CompileEnter(1, MainOptions(pa))

\* the options a program's compile calls are drawn from: every record when
\* it makes one call, the records of TwoRunOptions when it makes two
OptionsOffered == IF live = {1} THEN ApiOptions ELSE TwoRunOptions

\* variant: a call of compile waits until no other call is in flight
ApiCallGuarded(r) ==
  /\ mode = "api"
  /\ r \in live
  /\ pc[r] = "idle"
  /\ \A s \in RunIds \ {r} : pc[s] \notin {"bundling", "packaging"}
  /\ \E o \in OptionsOffered : CompileEnter(r, o)
  /\ UNCHANGED << parsed, usageShown >>

\* a program calls compile
ApiCall(r) ==
  /\ mode = "api"
  /\ r \in live
  /\ pc[r] = "idle"
  /\ \E o \in OptionsOffered : CompileEnter(r, o)
  /\ UNCHANGED << parsed, usageShown >>

\* variant: the rejection of the bundler is followed by the cleanup
BundleRejectCleaned(r) ==
  /\ pc[r] = "bundling"
  /\ fs' = Cleanup(fs)
  /\ Settle(r, "rejected", "Build failed", "bundling")
  /\ UNCHANGED << runtime, disk0, osPlatform, mode, live, args, parsed, usageShown,
                  options, hasAssets, bundlerCalls, pkgCalls, warnings >>

\* the bundler rejects
BundleReject(r) ==
  /\ pc[r] = "bundling"
  /\ Settle(r, "rejected", "Build failed", "bundling")
  /\ UNCHANGED << runtime, fs, disk0, osPlatform, mode, live, args, parsed, usageShown,
                  options, hasAssets, bundlerCalls, pkgCalls, warnings >>

\* the bundler resolves: the bundle is on disk, compile stages the assets and
\* invokes the packager
BundleResolve(r) ==
  /\ pc[r] = "bundling"
  /\ existsSync(fs, Resolve(cfg(r).entryPoint))
  /\ LET c == cfg(r)
         f1 == Put(MkdirP(fs, tempDir), bundleFile,
                   BundlerOutput(fs, Resolve(c.entryPoint)))
         st == AfterBundle(f1, c)
     IN  /\ fs' = st.fs
         /\ warnings' = warnings \o st.warnings
         /\ hasAssets' = [hasAssets EXCEPT ![r] = st.hasAssets]
         /\ IF st.ok
              THEN /\ pkgCalls' = Append(pkgCalls, PkgCall(st, c, r))
                   /\ pc' = [pc EXCEPT ![r] = "packaging"]
                   /\ UNCHANGED << err, failedAt, exitCode >>
              ELSE /\ Settle(r, "rejected", st.err, "staging")
                   /\ UNCHANGED pkgCalls
  /\ UNCHANGED << runtime, disk0, osPlatform, mode, live, args, parsed, usageShown,
                  options, bundlerCalls >>

\* the packager exits non-zero
PkgReject(r) ==
  /\ pc[r] = "packaging"
  /\ fs' = Cleanup(fs)
  /\ Settle(r, "rejected", "Command failed: npx pkg", "packaging")
  /\ UNCHANGED << runtime, disk0, osPlatform, mode, live, args, parsed, usageShown,
                  options, hasAssets, bundlerCalls, pkgCalls, warnings >>

\* the packager exits zero: the binaries are on disk, compile copies the
\* assets beside them and cleans up
PkgResolve(r) ==
  /\ pc[r] = "packaging"
  /\ existsSync(fs, bundleFile)
  /\ cfg(r).platform \in PkgPlatforms \cup {"all"}
  /\ LET c == cfg(r)
         cp == CopyBesideExe(PackagerWrites(fs, c), c, hasAssets[r])
     IN  /\ fs' = Cleanup(cp.fs)
         /\ IF cp.ok
              THEN Settle(r, "resolved", "", "none")
              ELSE Settle(r, "rejected", cp.err, "copy-beside-output")
  /\ UNCHANGED << runtime, disk0, osPlatform, mode, live, args, parsed, usageShown,
                  options, hasAssets, bundlerCalls, pkgCalls, warnings >>

Next ==
  \/ Main
  \/ \E r \in RunIds : ApiCall(r)
  \/ \E r \in RunIds : BundleReject(r)
  \/ \E r \in RunIds : BundleResolve(r)
  \/ \E r \in RunIds : PkgReject(r)
  \/ \E r \in RunIds : PkgResolve(r)

Spec == Init /\ [][Next]_vars

\* the argument resolver alone
SpecArgs == InitArgs /\ [][Main]_vars

\* a program that calls compile twice without awaiting the first call; the
\* segments of the two calls between their awaits interleave freely
InitTwo ==
  /\ mode = "api"
  /\ args = << >>
  /\ disk0 = BaseDisk
  /\ fs = disk0
  /\ live = {1, 2}
  /\ runtime = RuntimeIdle
  /\ InitCommon

NextTwo ==
  \/ \E r \in RunIds : ApiCall(r)
  \/ \E r \in RunIds : BundleReject(r)
  \/ \E r \in RunIds : BundleResolve(r)
  \/ \E r \in RunIds : PkgReject(r)
  \/ \E r \in RunIds : PkgResolve(r)

SpecTwo == InitTwo /\ [][NextTwo]_vars

\* a process of the packaged program: it evaluates bundles and the program
\* asks the helper for assets
InitHelper ==
  /\ mode = "run"
  /\ args = << >>
  /\ disk0 \in RunDisks
  /\ fs = disk0
  /\ live = {}
  /\ runtime \in {[RuntimeIdle EXCEPT !.pkg = b] : b \in BOOLEAN}
  /\ InitCommon

\* the process evaluates the script b
LoadBundle(b) ==
  /\ mode = "run"
  /\ runtime.loads < MaxLoads
  /\ runtime' =
       IF StartsWith(b, assetHelperCode)
         THEN [HelperPrologue(runtime) EXCEPT !.loads = @ + 1, !.helperRuns = @ + 1]
         ELSE [runtime EXCEPT !.loads = @ + 1]
  /\ UNCHANGED << fs, disk0, osPlatform, mode, live, args, parsed, usageShown,
                  exitCode, pc, options, hasAssets, err, failedAt, bundlerCalls,
                  pkgCalls, warnings >>

\* the program calls global.__readAsset(filename)
CallReadAsset(filename) ==
  /\ mode = "run"
  /\ runtime.initialized
  /\ LET r == readAsset(fs, runtime.pkg, filename)
     IN  runtime' = [runtime EXCEPT !.lookup = [ name |-> filename, ok |-> r.ok,
                                                err |-> r.err, data |-> r.data ]]
  /\ UNCHANGED << fs, disk0, osPlatform, mode, live, args, parsed, usageShown,
                  exitCode, pc, options, hasAssets, err, failedAt, bundlerCalls,
                  pkgCalls, warnings >>

NextHelper ==
  \/ \E b \in Bundles : LoadBundle(b)
  \/ \E n \in LookupNames : CallReadAsset(n)

SpecHelper == InitHelper /\ [][NextHelper]_vars

\* ------------------------------------------------------------------------
\* Properties
\* ------------------------------------------------------------------------
Started(r) == pc[r] # "idle"
Settled(r) == pc[r] \in {"resolved", "rejected"}

\* the entry file of call r, resolved
EntryPath(r) == Resolve(options[r].entryPoint)

\* the version and platform call r builds its targets from
NodeVersionOf(r) ==
  IF options[r].nodeVersion = Undefined THEN "16" ELSE options[r].nodeVersion

PlatformOf(r) ==
  IF options[r].platform # Undefined THEN options[r].platform
  ELSE IF osPlatform = "win32" THEN "win"
  ELSE IF osPlatform = "darwin" THEN "macos"
  ELSE "linux"

\* C1: a compile call whose resolved entry path is not on disk rejects with
\* "File not found: <path>", with no bundler and no packager invocation and
\* with the disk, the staging directory included, as it was
C1_MissingEntryFailsFirst ==
  \A r \in RunIds :
    (Started(r) /\ EntryPath(r) \notin DOMAIN disk0) =>
      /\ pc[r] = "rejected"
      /\ err[r] = "File not found: " \o EntryPath(r)
      /\ bundlerCalls = << >>
      /\ pkgCalls = << >>
      /\ fs = disk0

C1_Witness ==
  /\ pc[1] = "rejected"
  /\ EntryPath(1) = "/w/nope.ts"
  /\ err[1] = "File not found: /w/nope.ts"
  /\ ~existsSync(fs, tempDir)

\* C2 as stated: once compile has settled the staging directory does not
\* exist, unless the bundler failed (a call that stopped at the missing entry
\* file never had a staging directory: it must not have made one)
C2_CleanupUnlessBundlerFailed ==
  \A r \in RunIds :
    (Settled(r) /\ failedAt[r] # "bundling") =>
      IF failedAt[r] = "resolution"
        THEN existsSync(fs, tempDir) => existsSync(disk0, tempDir)
        ELSE ~existsSync(fs, tempDir)

\* C2 amended: once compile has settled after invoking the packager, whether
\* the packager succeeded or failed, the staging directory does not exist;
\* the runs that settle before that leave it: on disk when the bundler failed
\* or asset staging threw, as it was when the entry file was missing
C2_CleanupAfterPackaging ==
  \A r \in RunIds :
    /\ (Settled(r) /\ failedAt[r] \notin {"resolution", "bundling", "staging"})
         => /\ ~existsSync(fs, tempDir)
            /\ Under(fs, tempDir) = {}
    /\ (Settled(r) /\ failedAt[r] \in {"bundling", "staging"})
         => existsSync(fs, tempDir)
    /\ (Settled(r) /\ failedAt[r] = "resolution")
         => (existsSync(fs, tempDir) <=> existsSync(disk0, tempDir))

C2_Witness ==
  /\ pc[1] = "rejected"
  /\ failedAt[1] = "packaging"
  /\ hasAssets[1]
  /\ ~existsSync(fs, tempDir)

\* C3: with platform "all" the packager is given exactly the three
\* identifiers node<v>-win-x64, node<v>-macos-x64, node<v>-linux-x64, in its
\* target list and on its command line; any other platform gives at most one
C3_AllExpandsToThree ==
  \A i \in DOMAIN pkgCalls :
    LET r == pkgCalls[i].run
        v == NodeVersionOf(r)
    IN  /\ PlatformOf(r) = "all" =>
             /\ pkgCalls[i].targets =
                  << "node" \o v \o "-win-x64", "node" \o v \o "-macos-x64",
                     "node" \o v \o "-linux-x64" >>
             /\ StartsWith(pkgCalls[i].command,
                  "npx pkg " \o bundleFile \o " --targets node" \o v
                    \o "-win-x64,node" \o v \o "-macos-x64,node" \o v
                    \o "-linux-x64 ")
        /\ PlatformOf(r) # "all" => Len(pkgCalls[i].targets) <= 1

C3_Witness ==
  /\ pkgCalls # << >>
  /\ options[1].platform = "all"
  /\ options[1].nodeVersion = "18"
  /\ Len(pkgCalls[1].targets) = 3

\* C4: with a platform p other than "all", in the documented set or not, the
\* packager is given exactly one identifier, "node" + nodeVersion + "-" + p +
\* "-x64"
C4_SingleTargetVerbatim ==
  \A i \in DOMAIN pkgCalls :
    LET r == pkgCalls[i].run
    IN  PlatformOf(r) # "all" =>
          /\ pkgCalls[i].targets =
               << "node" \o NodeVersionOf(r) \o "-" \o PlatformOf(r) \o "-x64" >>
          /\ StartsWith(pkgCalls[i].command,
               "npx pkg " \o bundleFile \o " --targets node" \o NodeVersionOf(r)
                 \o "-" \o PlatformOf(r) \o "-x64 ")

C4_Witness ==
  /\ pkgCalls # << >>
  /\ options[1].platform = "solaris"
  /\ pkgCalls[1].targets = << "node16-solaris-x64" >>

\* the asset list of call r, and the packager invocation it made
AssetsOf(r) == cfg(r).assetsArray

\* call r got past the bundler
PastBundling(r) ==
  \/ pc[r] \in {"packaging", "resolved"}
  \/ pc[r] = "rejected" /\ failedAt[r] \in {"staging", "packaging", "copy-beside-output"}

\* an asset path that is not on disk
IsMissing(a) == a # Undefined /\ Resolve(a) \notin DOMAIN disk0

\* an asset path that is on disk
IsPresent(a) == a # Undefined /\ Resolve(a) \in DOMAIN disk0

\* the path under the directory to that a path under the directory from maps to
Rebase(p, from, to) == to \o SubSeq(p, Len(from) + 1, Len(p))

EndsWith(s, t) == Len(s) >= Len(t) /\ SubSeq(s, Len(s) - Len(t) + 1, Len(s)) = t

\* C5: a missing asset is skipped with a warning and is never fatal: staging
\* never fails on a missing path; when staging did not fail the warnings are
\* those of the missing assets in list order, the packager was invoked, and a
\* readable file asset listed after a missing one was still staged; when all
\* assets are missing nothing is copied and no asset counts as copied
C5_MissingAssetSkipped ==
  \A r \in RunIds :
    PastBundling(r) =>
      LET A == AssetsOf(r)
          missing == SelectSeq(A, IsMissing)
          calls == {i \in DOMAIN pkgCalls : pkgCalls[i].run = r}
      IN  /\ \A k \in 1..Len(A) :
               IsMissing(A[k]) => err[r] # "ENOENT: " \o Resolve(A[k])
          /\ failedAt[r] # "staging" =>
               /\ warnings = [i \in 1..Len(missing) |->
                                "Warning: Asset not found: " \o Resolve(missing[i])]
               /\ calls # {}
               /\ \A i \in calls : \A k \in 1..Len(A) : \A j \in 1..Len(A) :
                    ( /\ k < j
                      /\ IsMissing(A[k])
                      /\ IsPresent(A[j])
                      /\ disk0[Resolve(A[j])] # DIR ) =>
                    Join(tempAssetsDir, Basename(Resolve(A[j])))
                      \in DOMAIN pkgCalls[i].assets
          /\ (\A k \in 1..Len(A) : IsMissing(A[k])) =>
               /\ failedAt[r] # "staging"
               /\ ~hasAssets[r]
               /\ \A i \in calls :
                    DOMAIN pkgCalls[i].assets \subseteq DOMAIN disk0 \cup {tempAssetsDir}

C5_Witness ==
  /\ pc[1] = "packaging"
  /\ AssetsOf(1) = << "./missing-dir", "config.json" >>
  /\ warnings = << "Warning: Asset not found: /w/missing-dir" >>
  /\ "/w/.ts-compiler-bin-temp/assets/config.json" \in DOMAIN fs
  /\ "/w/.ts-compiler-bin-temp/assets/missing-dir" \notin DOMAIN fs

\* C6: in the staged assets handed to the packager, every file asset is
\* directly under assets/ by its basename, and everything below a directory
\* asset is under assets/ at its path relative to that directory, with no
\* folder named after the directory
C6_AssetsFlattened ==
  \A i \in DOMAIN pkgCalls :
    LET A == AssetsOf(pkgCalls[i].run)
        staged == pkgCalls[i].assets
    IN  \A k \in 1..Len(A) :
          IsPresent(A[k]) =>
            LET p == Resolve(A[k])
            IN  IF disk0[p] # DIR
                  THEN /\ Join(tempAssetsDir, Basename(p)) \in DOMAIN staged
                       /\ staged[Join(tempAssetsDir, Basename(p))] # DIR
                  ELSE /\ \A q \in Under(disk0, p) \ {p} :
                            /\ Rebase(q, p, tempAssetsDir) \in DOMAIN staged
                            /\ (staged[Rebase(q, p, tempAssetsDir)] = DIR)
                                 <=> (disk0[q] = DIR)
                       /\ Join(tempAssetsDir, Basename(p)) \notin DOMAIN staged

C6_Witness ==
  /\ pc[1] = "packaging"
  /\ AssetsOf(1) = << "config.json", "images" >>
  /\ fs["/w/.ts-compiler-bin-temp/assets/config.json"] = "cfg"
  /\ fs["/w/.ts-compiler-bin-temp/assets/a.png"] = "png-a"
  /\ fs["/w/.ts-compiler-bin-temp/assets/sub/b.png"] = "png-b"
  /\ "/w/.ts-compiler-bin-temp/assets/images" \notin DOMAIN fs

\* C7: the bundle handed to the packager is the helper followed by the
\* bundler's output, with the assets option on the command line, exactly when
\* some listed asset was on disk (and so was copied); otherwise it is the
\* bundler's output alone and the command line has no assets option
C7_HelperIffAssetCopied ==
  \A i \in DOMAIN pkgCalls :
    LET r == pkgCalls[i].run
        A == AssetsOf(r)
        copied == \E k \in 1..Len(A) : IsPresent(A[k])
        output == "bundle:" \o disk0[EntryPath(r)]
        option == "--assets \"/w/.ts-compiler-bin-temp/assets/**/*\""
    IN  /\ hasAssets[r] <=> copied
        /\ copied =>
             /\ pkgCalls[i].bundle = assetHelperCode \o output
             /\ pkgCalls[i].assetsOption = option
             /\ EndsWith(pkgCalls[i].command,
                         " " \o option \o " --output " \o Str(options[r].outFile))
        /\ ~copied =>
             /\ pkgCalls[i].bundle = output
             /\ pkgCalls[i].assetsOption = ""
             /\ EndsWith(pkgCalls[i].command,
                         "-x64  --output " \o Str(options[r].outFile))
        /\ pc[r] = "packaging" => fs[bundleFile] = pkgCalls[i].bundle

C7_Witness ==
  /\ pc[1] = "packaging"
  /\ hasAssets[1]
  /\ warnings # << >>
  /\ pkgCalls[1].bundle = assetHelperCode \o "bundle:src:a"
  /\ fs[bundleFile] = assetHelperCode \o "bundle:src:a"

\* the assets/ directory beside the output of call r
ExeAssetsOf(r) == Resolve(Join(Dirname(Str(options[r].outFile)), "assets"))

\* the packager of call r succeeded
PackagingSucceeded(r) ==
  Settled(r) /\ failedAt[r] \in {"none", "copy-beside-output"}

\* C8: when an asset was copied and the packager succeeded, every staged
\* asset is afterwards in assets/ beside the output; when the packager failed
\* or no asset was copied, the run has written nothing at or below that
\* assets/ directory
C8_AssetsBesideOutput ==
  \A r \in RunIds :
    /\ (PackagingSucceeded(r) /\ hasAssets[r]) =>
         \A i \in DOMAIN pkgCalls :
           pkgCalls[i].run = r =>
             \A p \in DOMAIN pkgCalls[i].assets \ {tempAssetsDir} :
               /\ Rebase(p, tempAssetsDir, ExeAssetsOf(r)) \in DOMAIN fs
               /\ fs[Rebase(p, tempAssetsDir, ExeAssetsOf(r))] = pkgCalls[i].assets[p]
    /\ (Settled(r) /\ (failedAt[r] = "packaging" \/ ~hasAssets[r])) =>
         /\ Under(fs, ExeAssetsOf(r)) = Under(disk0, ExeAssetsOf(r))
         /\ \A p \in Under(fs, ExeAssetsOf(r)) : fs[p] = disk0[p]

\* C8 where an output name was given: the same statement for the calls whose
\* outFile is defined and whose assets/ beside the output is not taken by a
\* regular file
C8_AssetsBesideNamedOutput ==
  \A r \in RunIds :
    (options[r].outFile # Undefined
       /\ (existsSync(disk0, ExeAssetsOf(r)) => IsDirectory(disk0, ExeAssetsOf(r)))) =>
      /\ (PackagingSucceeded(r) /\ hasAssets[r]) =>
           /\ pc[r] = "resolved"
           /\ \A i \in DOMAIN pkgCalls :
                pkgCalls[i].run = r =>
                  \A p \in DOMAIN pkgCalls[i].assets \ {tempAssetsDir} :
                    /\ Rebase(p, tempAssetsDir, ExeAssetsOf(r)) \in DOMAIN fs
                    /\ fs[Rebase(p, tempAssetsDir, ExeAssetsOf(r))]
                         = pkgCalls[i].assets[p]
      /\ (Settled(r) /\ (failedAt[r] = "packaging" \/ ~hasAssets[r])) =>
           /\ Under(fs, ExeAssetsOf(r)) = Under(disk0, ExeAssetsOf(r))
           /\ \A p \in Under(fs, ExeAssetsOf(r)) : fs[p] = disk0[p]

\* the flags that take the next token as their value
ValueFlags ==
  {"--out", "-o", "--target", "-t", "--platform", "-p", "--assets", "-a"}

SetMax(S) == CHOOSE x \in S : \A y \in S : y <= x

\* the positions of a token list that are not the value of a flag before them
ReadPositions(a) ==
  LET R[i \in 1..Len(a)] ==
        IF i = 1 THEN TRUE
        ELSE \/ R[i - 1] /\ a[i - 1] \notin ValueFlags
             \/ i >= 3 /\ R[i - 2] /\ a[i - 2] \in ValueFlags
  IN  {i \in 1..Len(a) : R[i]}

\* the token after the last flag of F, the default when F does not occur
LastValueOf(a, F, default) ==
  LET P == {i \in ReadPositions(a) : a[i] \in F}
  IN  IF P = {} THEN default ELSE At(a, SetMax(P) + 1)

\* the tokens after each flag of F, in order of appearance
ValuesOf(a, F) ==
  LET at == SelectSeq([i \in 1..Len(a) |-> i],
                      LAMBDA i : i \in ReadPositions(a) /\ a[i] \in F)
  IN  [k \in 1..Len(at) |-> At(a, at[k] + 1)]

\* the last bare token that is not the value of a flag, "" when there is none
LastBareToken(a) ==
  LET E == {i \in ReadPositions(a) : ~StartsWith(a[i], "-")}
  IN  IF E = {} THEN "" ELSE a[SetMax(E)]

\* what C9 says the resolver yields on the token list a
ResolverYield(a, os) ==
  [ entryPoint |-> LastBareToken(a),
    outFile |-> LastValueOf(a, {"--out", "-o"}, "output"),
    target |-> LastValueOf(a, {"--target", "-t"}, "16"),
    platform |-> LastValueOf(a, {"--platform", "-p"},
                             IF os = "win32" THEN "win"
                             ELSE IF os = "darwin" THEN "macos" ELSE "linux"),
    assets |-> ValuesOf(a, {"--assets", "-a"}) ]

\* main has parsed a token list that asks for no help
MainParsed ==
  /\ mode = "cli"
  /\ ~WantsHelp(args)
  /\ (exitCode # NoExit \/ pc[1] # "idle")

\* C9: on a token list without a help flag the resolver yields the token
\* after the last --out/-o (default "output"), after the last --target/-t
\* (default "16"), after the last --platform/-p (default by OS), the tokens
\* after each --assets/-a in order, and the last bare token that is not a
\* flag's value; each yielded value is a token of the list or the default
C9_ResolverYieldsTokens ==
  MainParsed =>
    /\ parsed = ResolverYield(args, osPlatform)
    /\ parsed.outFile # Undefined
    /\ parsed.target # Undefined
    /\ parsed.platform # Undefined
    /\ \A k \in 1..Len(parsed.assets) : parsed.assets[k] # Undefined

\* the same without the last four conjuncts: a flag that ends the list
\* yields undefined
C9_ResolverYieldsOrUndefined ==
  MainParsed => parsed = ResolverYield(args, osPlatform)

\* C10: the CLI exits 0 with no build on an empty list or a help flag, exits
\* 1 with no bundler or packager invocation when no entry point was given,
\* exits 1 when compile rejects at any stage and 0 when compile resolves
C10_ExitCodes ==
  mode = "cli" =>
    /\ WantsHelp(args) =>
         /\ exitCode \in {NoExit, 0}
         /\ exitCode = 0 => usageShown
         /\ pc[1] = "idle" /\ bundlerCalls = << >> /\ pkgCalls = << >>
         /\ fs = disk0
    /\ (~WantsHelp(args) /\ parsed.entryPoint = "") =>
         /\ exitCode = 1
         /\ pc[1] = "idle" /\ bundlerCalls = << >> /\ pkgCalls = << >>
         /\ fs = disk0
    /\ pc[1] = "rejected" => exitCode = 1
    /\ pc[1] = "resolved" => exitCode = 0
    /\ pc[1] \in {"bundling", "packaging"} => exitCode = NoExit
    /\ exitCode = 0 => (WantsHelp(args) \/ pc[1] = "resolved")
    /\ exitCode = 1 =>
         (~WantsHelp(args) /\ (pc[1] = "rejected" \/ parsed.entryPoint = ""))

C10_Witness ==
  /\ mode = "cli"
  /\ pc[1] = "rejected"
  /\ failedAt[1] = "packaging"
  /\ pkgCalls # << >>
  /\ exitCode = 1

\* ------------------------------------------------------------------------
\* C11: the defaults of compile against the defaults of the CLI
\* ------------------------------------------------------------------------
\* the assets of an options record, as a list
AssetListOf(o) ==
  IF o.assets.t = "undefined" THEN << >>
  ELSE IF o.assets.t = "string" THEN << o.assets.s >>
  ELSE o.assets.a

RECURSIVE AssetFlags(_)
AssetFlags(q) ==
  IF Len(q) = 0 THEN << >> ELSE << "-a", Head(q) >> \o AssetFlags(Tail(q))

\* the argument list of the CLI run that gives the fields o gives and omits
\* the flags of the fields o omits
CliArgsOf(o) ==
  (IF o.outFile = Undefined THEN << >> ELSE << "-o", o.outFile >>)
    \o (IF o.nodeVersion = Undefined THEN << >> ELSE << "-t", o.nodeVersion >>)
    \o (IF o.platform = Undefined THEN << >> ELSE << "-p", o.platform >>)
    \o AssetFlags(AssetListOf(o))
    \o << o.entryPoint >>

\* the configuration compile works with in that CLI run
CliCfg(o, os) == Destructure(MainOptions(ParseArgs(CliArgsOf(o), os)), os)

\* the invocations of call r are those of the configuration cc
SameInvocations(r, cc) ==
  /\ \A i \in 1..Len(bundlerCalls) : bundlerCalls[i] = BuildArgs(cc)
  /\ \A i \in 1..Len(pkgCalls) :
       pkgCalls[i].run = r =>
         /\ pkgCalls[i].command = pkgCommand(cc, hasAssets[r])
         /\ pkgCalls[i].targets = pkgTargets(cc.platform, cc.nodeVersion)
         /\ pkgCalls[i].output = Str(cc.outFile)

\* C11 as stated: a programmatic call works with the configuration of the
\* CLI run that omits the matching flags, outFile "output" included, and
\* makes the same bundler and packager invocations
C11_SameDefaultsAsCli ==
  mode = "api" =>
    \A r \in RunIds :
      (Started(r) /\ EntryPath(r) \in DOMAIN disk0) =>
        LET cc == CliCfg(options[r], osPlatform)
        IN  /\ cfg(r).outFile = cc.outFile
            /\ cfg(r).nodeVersion = cc.nodeVersion
            /\ cfg(r).platform = cc.platform
            /\ cfg(r).assetsArray = cc.assetsArray
            /\ SameInvocations(r, cc)

\* C11 amended: compile defaults nodeVersion to "16", platform to the one
\* the OS maps to and assets to the empty list, as the CLI does, and a call
\* that gives outFile makes the bundler and packager invocations of the CLI
\* run that omits the matching flags; outFile has no default in compile: a
\* call that omits it hands the packager the output name "undefined"
C11_SameDefaultsForOptionalFields ==
  mode = "api" =>
    \A r \in RunIds :
      (Started(r) /\ EntryPath(r) \in DOMAIN disk0) =>
        LET cc == CliCfg(options[r], osPlatform)
        IN  /\ cfg(r).nodeVersion = cc.nodeVersion
            /\ cfg(r).platform = cc.platform
            /\ cfg(r).assetsArray = cc.assetsArray
            /\ options[r].nodeVersion = Undefined => cfg(r).nodeVersion = "16"
            /\ options[r].platform = Undefined =>
                 cfg(r).platform = DefaultPlatform(osPlatform)
            /\ options[r].assets = NoAssets => cfg(r).assetsArray = << >>
            /\ IF options[r].outFile # Undefined
                 THEN cfg(r).outFile = cc.outFile /\ SameInvocations(r, cc)
                 ELSE /\ cc.outFile = "output"
                      /\ cfg(r).outFile = Undefined
                      /\ \A i \in 1..Len(pkgCalls) :
                           pkgCalls[i].run = r => pkgCalls[i].output = "undefined"

C11_Witness ==
  /\ mode = "api"
  /\ osPlatform = "darwin"
  /\ options[1] = [ entryPoint |-> "a.ts", outFile |-> "out", target |-> Undefined,
                    platform |-> Undefined, nodeVersion |-> Undefined,
                    assets |-> NoAssets ]
  /\ bundlerCalls = << [ entryPoints |-> << "/w/a.ts" >>, target |-> << "node16" >>,
                         outfile |-> "/w/.ts-compiler-bin-temp/bundle.js" ] >>
  /\ Len(pkgCalls) = 1
  /\ pkgCalls[1].command =
       "npx pkg /w/.ts-compiler-bin-temp/bundle.js --targets node16-macos-x64  --output out"

\* ------------------------------------------------------------------------
\* C12, C13: failures
\* ------------------------------------------------------------------------
\* the packager invocations of call r
PkgCallsOf(r) == {i \in 1..Len(pkgCalls) : pkgCalls[i].run = r}

\* the disk as compile leaves it when it awaits the bundler
DiskAtBundling ==
  IF ~existsSync(disk0, tempDir) THEN mkdirSync(disk0, tempDir) ELSE disk0

\* C12: when the bundler fails compile rejects with the bundler's error, no
\* asset is staged and nothing is warned about, the packager is not
\* invoked, and the staging directory made for the run is still on disk
C12_BundlerFailureLeavesStaging ==
  \A r \in RunIds :
    (Settled(r) /\ failedAt[r] = "bundling") =>
      /\ pc[r] = "rejected"
      /\ err[r] = "Build failed"
      /\ PkgCallsOf(r) = {}
      /\ ~hasAssets[r]
      /\ warnings = << >>
      /\ existsSync(fs, tempDir)
      /\ fs = DiskAtBundling
      /\ Under(fs, tempAssetsDir) = Under(disk0, tempAssetsDir)
      /\ ~existsSync(disk0, bundleFile) => ~existsSync(fs, bundleFile)

C12_Witness ==
  /\ pc[1] = "rejected"
  /\ failedAt[1] = "bundling"
  /\ err[1] = "Build failed"
  /\ AssetsOf(1) = << "config.json" >>
  /\ ~existsSync(disk0, tempDir)
  /\ existsSync(fs, tempDir)
  /\ ~existsSync(fs, tempAssetsDir)
  /\ pkgCalls = << >>

\* the binaries of call r that are on disk
BinariesOf(r) ==
  {k \in 1..Len(pkgOutputs(cfg(r))) :
     /\ existsSync(fs, pkgOutputs(cfg(r))[k])
     /\ StartsWith(fs[Resolve(pkgOutputs(cfg(r))[k])], "bin:")}

\* C13: when compile has rejected none of the run's output binaries is on
\* disk, and the bundler and the packager were each invoked at most once
C13_NoPartialSuccess ==
  \A r \in RunIds :
    /\ pc[r] = "rejected" => BinariesOf(r) = {}
    /\ Started(r) =>
         /\ Len(bundlerCalls) <= 1
         /\ Cardinality(PkgCallsOf(r)) <= 1

\* C13 apart from the copy beside the output: a run that rejected before the
\* packager exited zero left no binary, a run that resolved left them all,
\* and no stage ran twice
C13_NoBinaryUnlessPackaged ==
  \A r \in RunIds :
    /\ (pc[r] = "rejected" /\ failedAt[r] # "copy-beside-output")
         => BinariesOf(r) = {}
    /\ (pc[r] = "rejected" /\ failedAt[r] = "copy-beside-output")
         => BinariesOf(r) = 1..Len(pkgOutputs(cfg(r)))
    /\ pc[r] = "resolved" => BinariesOf(r) = 1..Len(pkgOutputs(cfg(r)))
    /\ Started(r) =>
         /\ Len(bundlerCalls) <= 1
         /\ Cardinality(PkgCallsOf(r)) <= 1

\* ------------------------------------------------------------------------
\* C14: two compile calls in one working directory
\* ------------------------------------------------------------------------
\* the packager invocation of call r
PkgCallOf(r) == pkgCalls[CHOOSE i \in PkgCallsOf(r) : TRUE]

\* what call r handed to its packager is no longer what is on disk
StagingDisturbed(r) ==
  /\ pc[r] = "packaging"
  /\ \/ ~existsSync(fs, bundleFile)
     \/ fs[bundleFile] # PkgCallOf(r).bundle
     \/ \E p \in DOMAIN PkgCallOf(r).assets :
          p \notin DOMAIN fs \/ fs[p] # PkgCallOf(r).assets[p]

\* C14: nothing keeps a compile call from starting while another is in
\* flight, every call stages under the one directory, and the staged input
\* of a call whose packager is running is disturbed only by another call
C14_RunsNotGuarded ==
  /\ \A r \in live : (mode = "api" /\ pc[r] = "idle") => ENABLED ApiCall(r)
  /\ \A i \in 1..Len(bundlerCalls) : bundlerCalls[i].outfile = bundleFile
  /\ \A i \in 1..Len(pkgCalls) :
       \A p \in DOMAIN pkgCalls[i].assets : StartsWith(p, tempDir \o "/")
  /\ \A r \in RunIds :
       StagingDisturbed(r) => \E s \in RunIds \ {r} : Started(s)

\* the cleanup of call 2 has removed the bundle and the staged assets of
\* call 1 while the packager of call 1 is running
C14_Witness ==
  /\ live = {1, 2}
  /\ pc[1] = "packaging"
  /\ hasAssets[1]
  /\ PkgCallOf(1).bundle = "<asset helper>bundle:src:a"
  /\ pc[2] = "resolved"
  /\ ~existsSync(fs, tempDir)
  /\ ~existsSync(fs, bundleFile)
  /\ StagingDisturbed(1)

\* the bundler of call 1 has overwritten the bundle call 2 prepared, helper
\* included, while the packager of call 2 is running
C14_WitnessOverwritten ==
  /\ live = {1, 2}
  /\ pc[2] = "packaging"
  /\ hasAssets[2]
  /\ PkgCallOf(2).bundle = "<asset helper>bundle:src:a"
  /\ pc[1] = "packaging"
  /\ ~hasAssets[1]
  /\ fs[bundleFile] = "bundle:src:a"
  /\ StagingDisturbed(2)

\* ------------------------------------------------------------------------
\* C15: the helper at run time
\* ------------------------------------------------------------------------
\* the four places of a file name, in the order (a) beside the executable,
\* (b) under the working directory, (c) the snapshot, (d) beside the bundle
PlacesOf(filename) ==
  << Join(Join(ExecDir, "assets"), filename),
     Join(Join(RunCwd, "assets"), filename),
     Join("/snapshot/assets", filename),
     Join(Join(BundleDir, "assets"), filename) >>

\* the same without the snapshot
PlacesOutsidePkg(filename) ==
  << PlacesOf(filename)[1], PlacesOf(filename)[2], PlacesOf(filename)[4] >>

\* the last lookup returned the first of the places q that exists, or failed
\* naming the file when none exists
LookupIsFirstOf(q) ==
  LET found == SelectSeq(q, LAMBDA p : p \in DOMAIN fs)
  IN  IF found = << >>
        THEN /\ ~runtime.lookup.ok
             /\ runtime.lookup.err = "Asset file not found: " \o runtime.lookup.name
        ELSE /\ runtime.lookup.ok
             /\ runtime.lookup.data = fs[found[1]]

\* C15 as stated: the helper is installed at most once however often it is
\* evaluated, and a lookup returns the first existing of the four places
\* (a), (b), (c), (d), failing with "Asset file not found: <name>" otherwise
C15_LookupOrder ==
  /\ runtime.installs <= 1
  /\ runtime.initialized <=> runtime.installs = 1
  /\ runtime.lookup # NoLookup => LookupIsFirstOf(PlacesOf(runtime.lookup.name))

\* C15 amended: the same, the snapshot place (c) being tried only in a
\* process that runs inside the packaging runtime (process.pkg is set)
C15_LookupOrderSnapshotInPkg ==
  /\ runtime.installs <= 1
  /\ runtime.initialized <=> runtime.installs = 1
  /\ runtime.lookup # NoLookup =>
       LookupIsFirstOf(IF runtime.pkg THEN PlacesOf(runtime.lookup.name)
                       ELSE PlacesOutsidePkg(runtime.lookup.name))

C15_Witness ==
  /\ runtime.pkg
  /\ runtime.helperRuns = 2
  /\ runtime.installs = 1
  /\ DOMAIN fs = {"/snapshot/assets/config.json", "/src/assets/config.json"}
  /\ runtime.lookup = [ name |-> "config.json", ok |-> TRUE, err |-> "",
                        data |-> "cfg@/snapshot/assets/config.json" ]

\* ------------------------------------------------------------------------
\* C16: a throw while staging
\* ------------------------------------------------------------------------
\* the asset makes the staging loop throw: it is not a string, or it is a
\* file the process may not read
Throws(a) == a = Undefined \/ Resolve(a) \in Unreadable

\* the position of the first asset of q that throws, Len(q) + 1 when none
FirstThrow(q) ==
  IF \E k \in 1..Len(q) : Throws(q[k])
    THEN CHOOSE k \in 1..Len(q) :
           Throws(q[k]) /\ \A j \in 1..(k - 1) : ~Throws(q[j])
    ELSE Len(q) + 1

\* where the files of the existing asset a are staged, flattened
StagedPathsOf(a) ==
  IF IsDirectory(disk0, Resolve(a))
    THEN {Rebase(p, Resolve(a), tempAssetsDir) :
            p \in Under(disk0, Resolve(a)) \ {Resolve(a)}}
    ELSE {Join(tempAssetsDir, Basename(Resolve(a)))}

\* C16: when asset staging throws after the bundler succeeded, compile
\* rejects with that error, the packager is not invoked, no binary and no
\* assets/ beside the output is written, and the staging directory stays on
\* disk with the bundle (no helper added) and every asset copied before the
\* throw
C16_StagingThrowLeavesStaging ==
  \A r \in RunIds :
    (Settled(r) /\ failedAt[r] = "staging") =>
      LET q == AssetsOf(r)
          k == FirstThrow(q)
      IN  /\ pc[r] = "rejected"
          /\ k <= Len(q)
          /\ err[r] = IF q[k] = Undefined THEN "TypeError: path must be a string"
                      ELSE "EACCES: " \o Resolve(q[k])
          /\ PkgCallsOf(r) = {}
          /\ Len(bundlerCalls) = 1
          /\ BinariesOf(r) = {}
          /\ IsDirectory(fs, tempDir)
          /\ IsDirectory(fs, tempAssetsDir)
          /\ existsSync(fs, bundleFile)
          /\ fs[bundleFile] = BundlerOutput(disk0, EntryPath(r))
          /\ \A j \in 1..(k - 1) :
               IsPresent(q[j]) =>
                 \A p \in StagedPathsOf(q[j]) : p \in DOMAIN fs
          /\ \A p \in DOMAIN fs :
               p \in DOMAIN disk0 \/ StartsWith(p, tempDir)

C16_Witness ==
  /\ pc[1] = "rejected"
  /\ failedAt[1] = "staging"
  /\ AssetsOf(1) = << "config.json", "secret.key" >>
  /\ err[1] = "EACCES: /w/secret.key"
  /\ pkgCalls = << >>
  /\ fs["/w/.ts-compiler-bin-temp/assets/config.json"] = "cfg"
  /\ fs["/w/.ts-compiler-bin-temp/bundle.js"] = "bundle:src:a"

\* ------------------------------------------------------------------------
\* C17: the generated README.md
\* ------------------------------------------------------------------------
\* C17: when an asset was copied the assets handed to the packager contain
\* the generated README.md, and so does assets/ beside the output once the
\* run has resolved; an asset staged under the name README.md has been
\* replaced by the generated text
C17_ReadmeGenerated ==
  \A r \in RunIds :
    /\ \A i \in PkgCallsOf(r) :
         hasAssets[r] =>
           /\ readmePath \in DOMAIN pkgCalls[i].assets
           /\ pkgCalls[i].assets[readmePath] = ReadmeText
           /\ \A k \in 1..Len(AssetsOf(r)) :
                (IsPresent(AssetsOf(r)[k])
                   /\ Basename(Resolve(AssetsOf(r)[k])) = "README.md") =>
                  pkgCalls[i].assets[readmePath] # disk0[Resolve(AssetsOf(r)[k])]
    /\ (pc[r] = "resolved" /\ hasAssets[r]) =>
         /\ Join(ExeAssetsOf(r), "README.md") \in DOMAIN fs
         /\ fs[Join(ExeAssetsOf(r), "README.md")] = ReadmeText

C17_Witness ==
  /\ pc[1] = "resolved"
  /\ AssetsOf(1) = << "README.md" >>
  /\ options[1].outFile = "out"
  /\ disk0["/w/README.md"] = "user readme"
  /\ Len(pkgCalls) = 1
  /\ pkgCalls[1].assets["/w/.ts-compiler-bin-temp/assets/README.md"] = ReadmeText
  /\ fs["/w/assets/README.md"] = ReadmeText

====
